---------------------------- MODULE Spec2Model ----------------------------
(***************************************************************************)
(* The session supervision engine of src/api/state.rs: the registry of     *)
(* sessions (State), the per-session supervisor (Wrapper) with its two     *)
(* output readers and its completion waiter, and the line classifier       *)
(* (pipe_reader_to_writer with STATS_PARSER and LOOT_PARSER).              *)
(*                                                                         *)
(* Text is modelled character by character: a string is a sequence of      *)
(* one-character strings, "ESC" stands for the byte 0x1B.                  *)
(***************************************************************************)
EXTENDS Integers, Sequences, FiniteSets, TLC

(***************************************************************************)
(* Characters and character classes of the regex crate.                    *)
(***************************************************************************)
Digits == {"0", "1", "2", "3", "4", "5", "6", "7", "8", "9"}

\* White_Space as matched by \s and removed by str::trim
WhiteSpace == {" ", "\t", "\n", "\r", "\f"}

DigitValue(c) ==
    CASE c = "0" -> 0 [] c = "1" -> 1 [] c = "2" -> 2 [] c = "3" -> 3
      [] c = "4" -> 4 [] c = "5" -> 5 [] c = "6" -> 6 [] c = "7" -> 7
      [] c = "8" -> 8 [] c = "9" -> 9

\* "any": .   "digit": \d   "space": \s   "notrparen": [^)]
InClass(cls, c) ==
    CASE cls = "any" -> c # "\n"
      [] cls = "digit" -> c \in Digits
      [] cls = "space" -> c \in WhiteSpace
      [] cls = "notrparen" -> c # ")"

(***************************************************************************)
(* strip_ansi_escapes::strip_str: the printable characters of the line.    *)
(* An escape sequence is ESC followed by one character, or ESC [ followed  *)
(* by parameter and intermediate characters up to one final character.     *)
(* Control characters other than the newline are not printed.              *)
(***************************************************************************)
CsiParams == Digits \cup {";", ":", "<", "=", ">", "?"}

CsiIntermediates == {" ", "!", "#", "$", "%", "&", "'", "(", ")", "*", "+", ",", "-", ".", "/"}

ControlChars == {"\t", "\r", "\f"}

\* the position of the last ESC at or before k, or 0
LastEsc(line, k) ==
    LET escs == {e \in 1..k : line[e] = "ESC"}
    IN  IF escs = {} THEN 0 ELSE CHOOSE e \in escs : \A d \in escs : e >= d

\* whether the character at k is printed: it is outside every escape sequence
\* and is no control character
Printed(line, k) ==
    LET e == LastEsc(line, k) IN
    IF e = 0 THEN line[k] \notin ControlChars
    ELSE IF k <= e + 1 THEN FALSE
    ELSE IF /\ line[e + 1] = "["
            /\ \A j \in (e + 2)..(k - 1) : line[j] \in CsiParams \cup CsiIntermediates \cup ControlChars
         THEN FALSE
    ELSE line[k] \notin ControlChars

strip_str(line) ==
    LET kept == {k \in 1..Len(line) : Printed(line, k)}
    IN  [i \in 1..Cardinality(kept) |->
            line[CHOOSE k \in kept : Cardinality({j \in kept : j <= k}) = i]]

(***************************************************************************)
(* str::trim and str::is_empty.                                            *)
(***************************************************************************)
RECURSIVE TrimStart(_)
TrimStart(s) ==
    IF s # <<>> /\ Head(s) \in WhiteSpace THEN TrimStart(Tail(s)) ELSE s

RECURSIVE TrimEnd(_)
TrimEnd(s) ==
    IF s # <<>> /\ s[Len(s)] \in WhiteSpace THEN TrimEnd(SubSeq(s, 1, Len(s) - 1)) ELSE s

trim(s) == TrimEnd(TrimStart(s))

is_empty(s) == Len(s) = 0

(***************************************************************************)
(* The regex crate's search, as a backtracking matcher over a flattened    *)
(* pattern.  A pattern is a sequence of items:                             *)
(*   bol          ^ under (?m): the start of the text or just after "\n"   *)
(*   lit s        the literal characters s                                 *)
(*   one c        one character of class c                                 *)
(*   plus c       one or more characters of class c, greedy                *)
(*   open g       the start of capture group g                             *)
(*   close g      the end of capture group g                               *)
(*   opt n        the next n items are optional, greedy: (...)?            *)
(* Leftmost-first semantics: the first match in the order in which a       *)
(* backtracking engine tries the alternatives.                             *)
(***************************************************************************)
Bol == [t |-> "bol"]
Lit(s) == [t |-> "lit", s |-> s]
One(c) == [t |-> "one", c |-> c]
Plus(c) == [t |-> "plus", c |-> c]
Open(g) == [t |-> "open", g |-> g]
Close(g) == [t |-> "close", g |-> g]
Opt(n) == [t |-> "opt", n |-> n]

\* (?m)^.+tasks=(\d+)\s+mem=(.+)\stargets=(\d+)\sattempts=(\d+)\sdone=(\d+)\s\((.+)%\)(\serrors=(\d+))?\sspeed=(.+) reqs/s
STATS_PARSER ==
    << Bol, Plus("any"), Lit(<<"t", "a", "s", "k", "s", "=">>), Open(1), Plus("digit"), Close(1),
       Plus("space"), Lit(<<"m", "e", "m", "=">>), Open(2), Plus("any"), Close(2),
       One("space"), Lit(<<"t", "a", "r", "g", "e", "t", "s", "=">>), Open(3), Plus("digit"), Close(3),
       One("space"), Lit(<<"a", "t", "t", "e", "m", "p", "t", "s", "=">>), Open(4), Plus("digit"), Close(4),
       One("space"), Lit(<<"d", "o", "n", "e", "=">>), Open(5), Plus("digit"), Close(5),
       One("space"), Lit(<<"(">>), Open(6), Plus("any"), Close(6), Lit(<<"%", ")">>),
       Opt(7), Open(7), One("space"), Lit(<<"e", "r", "r", "o", "r", "s", "=">>), Open(8), Plus("digit"), Close(8), Close(7),
       One("space"), Lit(<<"s", "p", "e", "e", "d", "=">>), Open(9), Plus("any"), Close(9), Lit(<<" ", "r", "e", "q", "s", "/", "s">>) >>

\* (?m)^.+\[(.+)\]\s\(([^)]+)\)(\s<(.+)>)?\s(.+)
LOOT_PARSER ==
    << Bol, Plus("any"), Lit(<<"[">>), Open(1), Plus("any"), Close(1), Lit(<<"]">>),
       One("space"), Lit(<<"(">>), Open(2), Plus("notrparen"), Close(2), Lit(<<")">>),
       Opt(8), Open(3), One("space"), Lit(<<"<">>), Open(4), Plus("any"), Close(4), Lit(<<">">>), Close(3),
       One("space"), Open(5), Plus("any"), Close(5) >>

\* the number of capture groups of the two patterns
NumGroups == 9

NoCaps == [g \in 1..NumGroups |-> <<0, 0>>]

NoMatch == [ok |-> FALSE, caps |-> NoCaps, end |-> 0]

HasPrefixAt(text, pos, s) ==
    /\ pos + Len(s) - 1 <= Len(text)
    /\ \A k \in 1..Len(s) : text[pos + k - 1] = s[k]

\* the length of the longest run of class cls starting at pos
RunLen(cls, text, pos) ==
    LET stops == {k \in pos..(Len(text) + 1) : k = Len(text) + 1 \/ ~InClass(cls, text[k])}
    IN  (CHOOSE k \in stops : \A j \in stops : k <= j) - pos

RECURSIVE MatchFrom(_, _, _, _, _)
MatchFrom(prog, text, i, pos, caps) ==
    IF i > Len(prog) THEN [ok |-> TRUE, caps |-> caps, end |-> pos]
    ELSE LET it == prog[i] IN
         CASE it.t = "bol" ->
                IF pos = 1 \/ text[pos - 1] = "\n"
                THEN MatchFrom(prog, text, i + 1, pos, caps) ELSE NoMatch
           [] it.t = "lit" ->
                IF HasPrefixAt(text, pos, it.s)
                THEN MatchFrom(prog, text, i + 1, pos + Len(it.s), caps) ELSE NoMatch
           [] it.t = "one" ->
                IF pos <= Len(text) /\ InClass(it.c, text[pos])
                THEN MatchFrom(prog, text, i + 1, pos + 1, caps) ELSE NoMatch
           [] it.t = "plus" ->
                \* greedy repetition: the longest run that lets the rest match
                LET fits == {n \in 1..RunLen(it.c, text, pos) :
                                MatchFrom(prog, text, i + 1, pos + n, caps).ok}
                IN  IF fits = {} THEN NoMatch
                    ELSE MatchFrom(prog, text, i + 1,
                                   pos + (CHOOSE n \in fits : \A k \in fits : n >= k), caps)
           [] it.t = "open" ->
                MatchFrom(prog, text, i + 1, pos, [caps EXCEPT ![it.g] = <<pos, 0>>])
           [] it.t = "close" ->
                MatchFrom(prog, text, i + 1, pos, [caps EXCEPT ![it.g] = <<caps[it.g][1], pos>>])
           [] it.t = "opt" ->
                LET taken == MatchFrom(prog, text, i + 1, pos, caps) IN
                IF taken.ok THEN taken
                ELSE MatchFrom(prog, text, i + 1 + it.n, pos, caps)

\* Regex::captures: the leftmost match
captures(prog, text) ==
    LET starts == {s \in 1..(Len(text) + 1) : MatchFrom(prog, text, 1, s, NoCaps).ok}
    IN  IF starts = {} THEN NoMatch
        ELSE MatchFrom(prog, text, 1, CHOOSE s \in starts : \A r \in starts : s <= r, NoCaps)

\* Captures::get(g): whether group g took part in the match, and its text
HasGroup(m, g) == m.caps[g][2] # 0

GroupText(text, m, g) == SubSeq(text, m.caps[g][1], m.caps[g][2] - 1)

(***************************************************************************)
(* str::parse for usize (64-bit) and f32.  A parse result is ok with a     *)
(* value v, or not ok.  An f32 is kept as its decimal reading: sign, whole *)
(* part, fraction digits without trailing zeros, and decimal exponent      *)
(* (the rounding to 24 bits of mantissa is not modelled).                  *)
(***************************************************************************)
ParseErr == [ok |-> FALSE, v |-> 0]

ParseOk(v) == [ok |-> TRUE, v |-> v]

\* usize::MAX = 2^64 - 1
UsizeMaxDigits == <<"1", "8", "4", "4", "6", "7", "4", "4", "0", "7", "3", "7", "0", "9", "5", "5", "1", "6", "1", "5">>

AllDigits(s) == \A k \in 1..Len(s) : s[k] \in Digits

RECURSIVE StripLeadingZeros(_)
StripLeadingZeros(s) ==
    IF Len(s) > 1 /\ Head(s) = "0" THEN StripLeadingZeros(Tail(s)) ELSE s

RECURSIVE DigitsToNat(_)
DigitsToNat(s) ==
    IF s = <<>> THEN 0
    ELSE 10 * DigitsToNat(SubSeq(s, 1, Len(s) - 1)) + DigitValue(s[Len(s)])

\* a > b for two digit strings of the same length
RECURSIVE DigitsGreater(_, _)
DigitsGreater(a, b) ==
    IF a = <<>> THEN FALSE
    ELSE IF Head(a) # Head(b) THEN DigitValue(Head(a)) > DigitValue(Head(b))
    ELSE DigitsGreater(Tail(a), Tail(b))

ExceedsUsize(s) ==
    LET n == StripLeadingZeros(s) IN
    \/ Len(n) > Len(UsizeMaxDigits)
    \/ Len(n) = Len(UsizeMaxDigits) /\ DigitsGreater(n, UsizeMaxDigits)

\* <usize as FromStr>::from_str
ParseUsize(s) ==
    LET d == IF s # <<>> /\ Head(s) = "+" THEN Tail(s) ELSE s IN
    IF d = <<>> \/ ~AllDigits(d) \/ ExceedsUsize(d) THEN ParseErr
    ELSE ParseOk(DigitsToNat(d))

\* the position of the first character of s that is in set, or 0
RECURSIVE FirstIn(_, _, _)
FirstIn(s, set, k) ==
    IF k > Len(s) THEN 0
    ELSE IF s[k] \in set THEN k
    ELSE FirstIn(s, set, k + 1)

RECURSIVE StripTrailingZeros(_)
StripTrailingZeros(s) ==
    IF s # <<>> /\ s[Len(s)] = "0" THEN StripTrailingZeros(SubSeq(s, 1, Len(s) - 1)) ELSE s

LowerAscii(c) ==
    CASE c = "I" -> "i" [] c = "N" -> "n" [] c = "F" -> "f"
      [] c = "T" -> "t" [] c = "Y" -> "y" [] c = "A" -> "a"
      [] OTHER -> c

\* special is "inf" or "nan" for the two non-numbers, "" otherwise
F32(neg, whole, frac, exp) ==
    [neg |-> neg, whole |-> whole, frac |-> frac, exp |-> exp, special |-> ""]

F32Special(neg, special) ==
    [neg |-> neg, whole |-> 0, frac |-> <<>>, exp |-> 0, special |-> special]

\* f32::default()
F32Zero == F32(FALSE, 0, <<>>, 0)

\* the exponent part after e or E: an optional sign and at least one digit
ParseExponent(s) ==
    LET signed == s # <<>> /\ Head(s) \in {"+", "-"}
        d == IF signed THEN Tail(s) ELSE s
    IN  IF d = <<>> \/ ~AllDigits(d) THEN ParseErr
        ELSE ParseOk(IF signed /\ Head(s) = "-" THEN 0 - DigitsToNat(d) ELSE DigitsToNat(d))

\* <f32 as FromStr>::from_str
ParseF32(s) ==
    LET signed == s # <<>> /\ Head(s) \in {"+", "-"}
        neg == signed /\ Head(s) = "-"
        body == IF signed THEN Tail(s) ELSE s
        lower == [k \in 1..Len(body) |-> LowerAscii(body[k])]
        ePos == FirstIn(body, {"e", "E"}, 1)
        mant == IF ePos = 0 THEN body ELSE SubSeq(body, 1, ePos - 1)
        exp == IF ePos = 0 THEN ParseOk(0) ELSE ParseExponent(SubSeq(body, ePos + 1, Len(body)))
        dot == FirstIn(mant, {"."}, 1)
        whole == IF dot = 0 THEN mant ELSE SubSeq(mant, 1, dot - 1)
        frac == IF dot = 0 THEN <<>> ELSE SubSeq(mant, dot + 1, Len(mant))
    IN  IF lower \in {<<"i", "n", "f">>, <<"i", "n", "f", "i", "n", "i", "t", "y">>} THEN ParseOk(F32Special(neg, "inf"))
        ELSE IF lower = <<"n", "a", "n">> THEN ParseOk(F32Special(neg, "nan"))
        ELSE IF \/ ~exp.ok
                \/ ~AllDigits(whole) \/ ~AllDigits(frac)
                \/ Len(whole) + Len(frac) = 0
             THEN ParseErr
        ELSE ParseOk(F32(neg, DigitsToNat(whole), StripTrailingZeros(frac), exp.v))

(***************************************************************************)
(* Statistics, Loot and Completion.                                        *)
(***************************************************************************)
\* Option<T>
None == <<>>

Some(v) == <<v>>

\* Statistics::default()
DefaultStatistics ==
    [tasks |-> 0, memory |-> <<>>, targets |-> 0, attempts |-> 0,
     errors |-> 0, done |-> 0, done_percent |-> F32Zero, reqs_per_sec |-> 0]

\* the assignments to stats_w, in the order the reader makes them
StatsOrder ==
    <<"tasks", "memory", "targets", "attempts", "done", "done_percent", "errors", "reqs_per_sec">>

\* the value of the k-th assignment for the match m of STATS_PARSER on text:
\* not ok where the code's parse().unwrap() panics
StatsValue(k, text, m) ==
    CASE StatsOrder[k] = "tasks" -> ParseUsize(GroupText(text, m, 1))
      [] StatsOrder[k] = "memory" -> ParseOk(GroupText(text, m, 2))
      [] StatsOrder[k] = "targets" -> ParseUsize(GroupText(text, m, 3))
      [] StatsOrder[k] = "attempts" -> ParseUsize(GroupText(text, m, 4))
      [] StatsOrder[k] = "done" -> ParseUsize(GroupText(text, m, 5))
      [] StatsOrder[k] = "done_percent" -> ParseF32(GroupText(text, m, 6))
      [] StatsOrder[k] = "errors" ->
            IF HasGroup(m, 8) THEN ParseUsize(GroupText(text, m, 8)) ELSE ParseOk(0)
      [] StatsOrder[k] = "reqs_per_sec" -> ParseUsize(GroupText(text, m, 9))

\* Loot { found_at, plugin, target, data } of the match m of LOOT_PARSER
LootOf(text, m) ==
    [found_at |-> GroupText(text, m, 1),
     plugin |-> GroupText(text, m, 2),
     target |-> IF HasGroup(m, 4) THEN Some(GroupText(text, m, 4)) ELSE None,
     data |-> GroupText(text, m, 5)]

\* Completion::with_status (completed_at, a wall-clock reading, is left out)
with_status(exit_code) == [exit_code |-> exit_code, error |-> None]

\* a Completion with an error and the exit code 0 (a mutant of with_error)
with_error_zero(error) == [exit_code |-> 0, error |-> Some(error)]

\* Completion::with_error
with_error(error) == [exit_code |-> -1, error |-> Some(error)]

(***************************************************************************)
(* The classification of one line by pipe_reader_to_writer: which branch   *)
(* the reader takes, and the values it takes there.                        *)
(***************************************************************************)
Classify(line) ==
    LET text == strip_str(line)
        sm == captures(STATS_PARSER, text)
        lm == captures(LOOT_PARSER, text)
    IN  IF is_empty(trim(text)) THEN [kind |-> "blank"]
        ELSE IF sm.ok
             THEN [kind |-> "stats", values |-> [k \in 1..Len(StatsOrder) |-> StatsValue(k, text, sm)]]
        ELSE IF lm.ok THEN [kind |-> "loot", loot |-> LootOf(text, lm)]
        ELSE [kind |-> "raw", text |-> trim(text)]

(***************************************************************************)
(* The lines a child process writes in this model, by name.                *)
(***************************************************************************)
LineText ==
    [ \* the statistics line of the specification's example: a decimal speed
      stats_decimal |-> <<".", ".", ".", " ", "t", "a", "s", "k", "s", "=", "5", " ", "m", "e", "m", "=", "1", "2", "0", "M", "B", " ", "t", "a", "r", "g", "e", "t", "s", "=", "1", "0", " ", "a", "t", "t", "e", "m", "p", "t", "s", "=", "5", "0", " ", "d", "o", "n", "e", "=", "2", "5", " ", "(", "5", "0", ".", "0", "%", ")", " ", "e", "r", "r", "o", "r", "s", "=", "2", " ", "s", "p", "e", "e", "d", "=", "1", "2", ".", "5", " ", "r", "e", "q", "s", "/", "s">>,
      \* a statistics line as the worker prints it, with an errors= group
      stats_errors |-> <<"[", "I", "N", "F", "O", " ", "]", " ", "t", "a", "s", "k", "s", "=", "4", " ", "m", "e", "m", "=", "6", "4", ".", "5", " ", "M", "i", "B", " ", "t", "a", "r", "g", "e", "t", "s", "=", "8", " ", "a", "t", "t", "e", "m", "p", "t", "s", "=", "4", "0", " ", "d", "o", "n", "e", "=", "2", "0", " ", "(", "2", "5", ".", "5", "0", "%", ")", " ", "e", "r", "r", "o", "r", "s", "=", "3", " ", "s", "p", "e", "e", "d", "=", "7", " ", "r", "e", "q", "s", "/", "s">>,
      \* a statistics line without the errors= group
      stats_plain |-> <<"[", "I", "N", "F", "O", " ", "]", " ", "t", "a", "s", "k", "s", "=", "7", " ", "m", "e", "m", "=", "1", " ", "M", "i", "B", " ", "t", "a", "r", "g", "e", "t", "s", "=", "1", " ", "a", "t", "t", "e", "m", "p", "t", "s", "=", "9", " ", "d", "o", "n", "e", "=", "3", " ", "(", "3", "3", ".", "3", "%", ")", " ", "s", "p", "e", "e", "d", "=", "6", " ", "r", "e", "q", "s", "/", "s">>,
      \* a tasks= digit run above usize::MAX
      stats_overflow |-> <<"[", "I", "N", "F", "O", " ", "]", " ", "t", "a", "s", "k", "s", "=", "9", "9", "9", "9", "9", "9", "9", "9", "9", "9", "9", "9", "9", "9", "9", "9", "9", "9", "9", "9", "9", "9", "9", " ", "m", "e", "m", "=", "1", " ", "M", "i", "B", " ", "t", "a", "r", "g", "e", "t", "s", "=", "1", " ", "a", "t", "t", "e", "m", "p", "t", "s", "=", "9", " ", "d", "o", "n", "e", "=", "3", " ", "(", "3", "3", ".", "3", "%", ")", " ", "s", "p", "e", "e", "d", "=", "6", " ", "r", "e", "q", "s", "/", "s">>,
      \* the finding line of the specification's example
      finding |-> <<".", ".", ".", " ", "[", "2", "0", "2", "4", "-", "0", "1", "-", "0", "1", "T", "0", "0", ":", "0", "0", ":", "0", "0", "]", " ", "(", "s", "q", "l", "-", "i", "n", "j", "e", "c", "t", "i", "o", "n", ")", " ", "<", "h", "t", "t", "p", ":", "/", "/", "t", "a", "r", "g", "e", "t", ">", " ", "f", "o", "u", "n", "d", " ", "a", "d", "m", "i", "n", ":", "a", "d", "m", "i", "n", "1", "2", "3">>,
      \* a finding line without a target
      finding_notarget |-> <<".", ".", ".", " ", "[", "2", "0", "2", "4", "-", "0", "1", "-", "0", "2", "T", "0", "0", ":", "0", "0", ":", "0", "0", "]", " ", "(", "s", "s", "h", ")", " ", "r", "o", "o", "t", ":", "t", "o", "o", "r">>,
      \* coloured text with blanks around it
      raw |-> <<" ", " ", "ESC", "[", "3", "2", "m", "h", "e", "l", "l", "o", " ", "w", "o", "r", "l", "d", "ESC", "[", "0", "m", " ">>,
      \* text without colours or blanks around it
      plain |-> <<"s", "t", "a", "r", "t", "i", "n", "g", " ", "t", "h", "e", " ", "a", "t", "t", "a", "c", "k">>,
      \* the tokens of a statistics line from the first character of the line on
      stats_bare |-> <<"t", "a", "s", "k", "s", "=", "5", " ", "m", "e", "m", "=", "1", "2", "0", "M", "B", " ", "t", "a", "r", "g", "e", "t", "s", "=", "1", "0", " ", "a", "t", "t", "e", "m", "p", "t", "s", "=", "5", "0", " ", "d", "o", "n", "e", "=", "2", "5", " ", "(", "5", "0", ".", "0", "%", ")", " ", "e", "r", "r", "o", "r", "s", "=", "2", " ", "s", "p", "e", "e", "d", "=", "1", "2", " ", "r", "e", "q", "s", "/", "s">>,
      \* a line that matches the statistics pattern and the finding pattern
      stats_finding |-> <<".", ".", ".", " ", "[", "2", "0", "2", "4", "-", "0", "1", "-", "0", "1", "T", "0", "0", ":", "0", "0", ":", "0", "0", "]", " ", "(", "s", "s", "h", ")", " ", "t", "a", "s", "k", "s", "=", "1", " ", "m", "e", "m", "=", "9", " ", "M", "i", "B", " ", "t", "a", "r", "g", "e", "t", "s", "=", "2", " ", "a", "t", "t", "e", "m", "p", "t", "s", "=", "3", " ", "d", "o", "n", "e", "=", "4", " ", "(", "5", "%", ")", " ", "s", "p", "e", "e", "d", "=", "6", " ", "r", "e", "q", "s", "/", "s">>,
      \* nothing but blanks and a colour reset
      blank |-> <<" ", "ESC", "[", "0", "m", " ", " ">> ]

LineNames == DOMAIN LineText

\* Classify, tabulated over the lines of the model
Classified == [n \in LineNames |-> Classify(LineText[n])]

(***************************************************************************)
(* Bounds of the model.                                                    *)
(***************************************************************************)
\* the number of session ids new_v4 can issue
MaxSessions == 2

\* the number of lines the child processes write, all together
MaxWrites == 2

\* the number of lines the child writes where only its output is followed
MaxLines == 3

Ids == 1..MaxSessions

\* the callers of the registry's operations (the API's request handlers)
Callers == {"a", "b"}

NoCaller == "none"

Clients == {"client"}

\* an argument vector is taken by what Options::try_parse_from makes of it
Argvs == {"valid", "invalid"}

\* the process ids the operating system hands out
Pids == 1..MaxSessions

Streams == {"stdout", "stderr"}

\* the lines the children write under Spec
CoreLines == {"stats_plain", "stats_decimal", "finding", "raw", "plain"}

\* ExitStatus::code(): Some(code) after exit(code), None after death by signal
ExitCodes == {0, 1}

ExitStatuses == {<<code>> : code \in ExitCodes} \cup {<<>>}

(***************************************************************************)
(* The state.                                                              *)
(***************************************************************************)
VARIABLES
    sessions,    \* State::sessions: session id -> Wrapper
    dropped,     \* whether the State has been dropped
    destroyed,   \* the session ids whose Wrapper has been dropped
    lock,        \* the caller holding the write guard of SharedState, or NoCaller
    pc,          \* per caller: where it is in its call
    call,        \* per caller: the arguments and locals of its call
    result,      \* what the last call to return returned
    issued,      \* the session ids new_v4 has returned
    proc,        \* per session id: its child process
    pidOwner,    \* per process id: the process that has it
    signalled,   \* the processes SIGTERM has been delivered to
    pipe,        \* per session id and stream: the lines written and not yet read
    reader,      \* per session id and stream: the state of the reader task
    waiter,      \* per session id: the state of the completion waiter task
    statistics,  \* per session id: Wrapper::statistics
    poisoned,    \* per session id: whether the statistics mutex is poisoned
    loot,        \* per session id: Wrapper::loot
    output,      \* per session id: Wrapper::output
    completed,   \* per session id: Wrapper::completed
    written,     \* the number of lines written so far
    late,        \* per session id: a record was appended after completion (history)
    applied      \* per session id: the lines the readers have taken, in order (history)

vars == <<sessions, dropped, destroyed, lock, pc, call, result, issued, proc, pidOwner, signalled,
          pipe, reader, waiter, statistics, poisoned, loot, output, completed, written, late, applied>>

registryVars == <<sessions, dropped, destroyed, lock, pc, call, result, issued>>

telemetryVars == <<statistics, poisoned, loot, output, completed>>

taskVars == <<reader, waiter>>

osVars == <<proc, pidOwner, signalled, pipe, written>>

historyVars == <<late, applied>>

NoCall == [op |-> "none", client |-> "", argv |-> "", session_id |-> 0, process_id |-> 0]

\* Result<T, Error> of the last call: Ok(v) of operation op, or Err(err)
NoResult == [op |-> "none", ok |-> TRUE, v |-> 0, err |-> ""]

Ok(op, v) == [op |-> op, ok |-> TRUE, v |-> v, err |-> ""]

Err(op, err) == [op |-> op, ok |-> FALSE, v |-> 0, err |-> err]

FreePid == [kind |-> "free", id |-> 0]

ChildPid(s) == [kind |-> "child", id |-> s]

OtherPid == [kind |-> "other", id |-> 0]

NoProcess == [state |-> "none", status |-> None]

\* State::new(), no session started
Init ==
    /\ sessions = <<>>
    /\ dropped = FALSE
    /\ destroyed = {}
    /\ lock = NoCaller
    /\ pc = [c \in Callers |-> "idle"]
    /\ call = [c \in Callers |-> NoCall]
    /\ result = NoResult
    /\ issued = {}
    /\ proc = [s \in Ids |-> NoProcess]
    /\ pidOwner = [p \in Pids |-> FreePid]
    /\ signalled = {}
    /\ pipe = [s \in Ids |-> [st \in Streams |-> <<>>]]
    /\ reader = [s \in Ids |-> [st \in Streams |-> "none"]]
    /\ waiter = [s \in Ids |-> "none"]
    /\ statistics = [s \in Ids |-> DefaultStatistics]
    /\ poisoned = [s \in Ids |-> FALSE]
    /\ loot = [s \in Ids |-> <<>>]
    /\ output = [s \in Ids |-> <<>>]
    /\ completed = [s \in Ids |-> None]
    /\ written = 0
    /\ late = [s \in Ids |-> FALSE]
    /\ applied = [s \in Ids |-> <<>>]

(***************************************************************************)
(* State::start_new_session.  Its receiver is &mut self: the caller holds  *)
(* the write guard of SharedState from before the call until it returns,   *)
(* across the await of Wrapper::start.                                     *)
(***************************************************************************)
\* Options::try_parse_from(&argv)
try_parse_from(argv) == argv = "valid"

\* a generator that can return an id again (the mutant of new_v4)
new_v4_reused == Ids

\* uuid::Uuid::new_v4(): the ids it can return, none of which it returned before
new_v4 == Ids \ issued

\* HashMap::insert: the entry of the key is added or replaced
insert(map, key, value) ==
    [k \in DOMAIN map \cup {key} |-> IF k = key THEN value ELSE map[k]]

Return(c, res) ==
    /\ pc' = [pc EXCEPT ![c] = "idle"]
    /\ call' = [call EXCEPT ![c] = NoCall]
    /\ result' = res

\* the caller takes the write guard and calls start_new_session(client, argv)
CreateBegin(c, client, argv) ==
    /\ pc[c] = "idle"
    /\ ~dropped
    /\ lock = NoCaller
    /\ try_parse_from(argv) => new_v4 # {}
    /\ lock' = c
    /\ pc' = [pc EXCEPT ![c] = "validate"]
    /\ call' = [call EXCEPT ![c] = [NoCall EXCEPT !.op = "create", !.client = client, !.argv = argv]]
    /\ UNCHANGED <<sessions, dropped, destroyed, result, issued, telemetryVars, taskVars, osVars, historyVars>>

\* a create that goes on to spawn whatever the validation says (the mutant
\* of CreateValidate)
CreateValidateUnchecked(c) ==
    /\ pc[c] = "validate"
    /\ \E id \in Ids :
          /\ issued' = issued \cup {id}
          /\ call' = [call EXCEPT ![c].session_id = id]
    /\ pc' = [pc EXCEPT ![c] = "start"]
    /\ UNCHANGED <<lock, result>>
    /\ UNCHANGED <<sessions, dropped, destroyed, telemetryVars, taskVars, osVars, historyVars>>

\* line 258: validate argv; line 259: generate the session id
CreateValidate(c) ==
    /\ pc[c] = "validate"
    /\ IF ~try_parse_from(call[c].argv)
       THEN /\ Return(c, Err("create", "validation"))
            /\ lock' = NoCaller
            /\ UNCHANGED issued
       ELSE /\ \E id \in new_v4 :
                 /\ issued' = issued \cup {id}
                 /\ call' = [call EXCEPT ![c].session_id = id]
            /\ pc' = [pc EXCEPT ![c] = "start"]
            /\ UNCHANGED <<lock, result>>
    /\ UNCHANGED <<sessions, dropped, destroyed, telemetryVars, taskVars, osVars, historyVars>>

\* a create that registers the session before it starts the Wrapper, and
\* leaves the entry when the start fails (the mutant of CreateSpawnFails)
CreateSpawnFailsRegistered(c) ==
    /\ pc[c] = "start"
    /\ sessions' = insert(sessions, call[c].session_id,
                          [session_id |-> call[c].session_id, process_id |-> 0,
                           client |-> call[c].client, argv |-> call[c].argv])
    /\ Return(c, Err("create", "spawn"))
    /\ lock' = NoCaller
    /\ UNCHANGED <<dropped, destroyed, issued, telemetryVars, taskVars, osVars, historyVars>>

\* Wrapper::start fails: get_current_exe or spawn returns an error, and
\* start_new_session returns it
CreateSpawnFails(c) ==
    /\ pc[c] = "start"
    /\ Return(c, Err("create", "spawn"))
    /\ lock' = NoCaller
    /\ UNCHANGED <<sessions, dropped, destroyed, issued, telemetryVars, taskVars, osVars, historyVars>>

\* Wrapper::start succeeds: the child runs, the two readers and the waiter
\* are spawned (the waiter owns the Child), the Wrapper is built
CreateSpawn(c) ==
    /\ pc[c] = "start"
    /\ LET s == call[c].session_id IN
       \E p \in {q \in Pids : pidOwner[q] = FreePid} :
          /\ proc' = [proc EXCEPT ![s] = [state |-> "running", status |-> None]]
          /\ pidOwner' = [pidOwner EXCEPT ![p] = ChildPid(s)]
          /\ reader' = [reader EXCEPT ![s] = [st \in Streams |-> "reading"]]
          /\ waiter' = [waiter EXCEPT ![s] = "waiting"]
          /\ statistics' = [statistics EXCEPT ![s] = DefaultStatistics]
          /\ poisoned' = [poisoned EXCEPT ![s] = FALSE]
          /\ loot' = [loot EXCEPT ![s] = <<>>]
          /\ output' = [output EXCEPT ![s] = <<>>]
          /\ completed' = [completed EXCEPT ![s] = None]
          /\ call' = [call EXCEPT ![c].process_id = p]
    /\ pc' = [pc EXCEPT ![c] = "insert"]
    /\ UNCHANGED <<sessions, dropped, destroyed, lock, result, issued, signalled, pipe, written, historyVars>>

\* lines 262-267: insert the Wrapper, return the id; the caller drops the guard
CreateInsert(c) ==
    /\ pc[c] = "insert"
    /\ LET s == call[c].session_id
           wrapper == [session_id |-> s, process_id |-> call[c].process_id,
                       client |-> call[c].client, argv |-> call[c].argv]
       IN  /\ sessions' = insert(sessions, s, wrapper)
           /\ destroyed' = destroyed \cup ({s} \cap DOMAIN sessions)
           /\ Return(c, Ok("create", s))
    /\ lock' = NoCaller
    /\ UNCHANGED <<dropped, issued, telemetryVars, taskVars, osVars, historyVars>>

(***************************************************************************)
(* State::stop_session, get_session and active_sessions.  Their receiver   *)
(* is &self: the caller holds a read guard, which no writer's guard        *)
(* overlaps.                                                               *)
(***************************************************************************)
\* nix::sys::signal::kill(pid, SIGTERM): delivered to whatever process has pid
\* (a zombie included), ESRCH when none has
KillDelivers(pid) == pidOwner[pid].kind # "free"

\* a stop that records the failure of the signal in the session (the mutant
\* of StopSession)
StopSessionRecordsFailure(c, id) ==
    /\ pc[c] = "idle"
    /\ ~dropped
    /\ lock = NoCaller
    /\ IF id \notin DOMAIN sessions
       THEN /\ result' = Err("stop", "not found")
            /\ UNCHANGED <<signalled, completed>>
       ELSE LET pid == sessions[id].process_id IN
            IF KillDelivers(pid)
            THEN /\ signalled' = signalled \cup {pidOwner[pid]}
                 /\ result' = Ok("stop", 0)
                 /\ UNCHANGED completed
            ELSE /\ result' = Err("stop", "signal")
                 /\ completed' = [completed EXCEPT ![id] = Some(with_error("signal"))]
                 /\ UNCHANGED signalled
    /\ UNCHANGED <<sessions, dropped, destroyed, lock, pc, call, issued, statistics, poisoned,
                   loot, output, taskVars, proc, pidOwner, pipe, written, historyVars>>

\* Wrapper::stop and State::stop_session
StopSession(c, id) ==
    /\ pc[c] = "idle"
    /\ ~dropped
    /\ lock = NoCaller
    /\ IF id \notin DOMAIN sessions
       THEN /\ result' = Err("stop", "not found")
            /\ UNCHANGED signalled
       ELSE LET pid == sessions[id].process_id IN
            IF KillDelivers(pid)
            THEN /\ signalled' = signalled \cup {pidOwner[pid]}
                 /\ result' = Ok("stop", 0)
            ELSE /\ result' = Err("stop", "signal")
                 /\ UNCHANGED signalled
    /\ UNCHANGED <<sessions, dropped, destroyed, lock, pc, call, issued, telemetryVars, taskVars,
                   proc, pidOwner, pipe, written, historyVars>>

\* State::get_session
get_session(id) == IF id \in DOMAIN sessions THEN Some(sessions[id]) ELSE None

\* State::active_sessions
active_sessions == sessions

\* whether the statistics of session s can be read for the answer of get or
\* list: the Wrapper is serialized field by field, and the statistics are
\* read under their mutex, which fails once the mutex is poisoned
StatisticsReadable(s) == ~poisoned[s]

\* whether a caller can take a read guard and call get_session or active_sessions
CanRead == ~dropped /\ lock = NoCaller

\* the State is dropped with its Wrappers, once no caller uses it: a Wrapper
\* has no Drop of its own and owns no Child, its fields are dropped
DropState ==
    /\ ~dropped
    /\ lock = NoCaller
    /\ \A c \in Callers : pc[c] = "idle"
    /\ dropped' = TRUE
    /\ destroyed' = destroyed \cup DOMAIN sessions
    /\ UNCHANGED <<sessions, lock, pc, call, result, issued, telemetryVars, taskVars, osVars, historyVars>>

(***************************************************************************)
(* The child process and the operating system.                             *)
(***************************************************************************)
\* the child writes a line to one of its two pipes, one of max lines at most
ChildWrites(s, st, n, max) ==
    /\ proc[s].state = "running"
    /\ written < max
    /\ pipe' = [pipe EXCEPT ![s][st] = Append(@, n)]
    /\ written' = written + 1
    /\ UNCHANGED <<registryVars, telemetryVars, taskVars, proc, pidOwner, signalled, historyVars>>

ChildWrite(s, st, n) == ChildWrites(s, st, n, MaxWrites)

\* the child exits with a code, or dies of a signal delivered to it; it is a
\* zombie until it is waited for, and the write ends of its pipes are closed
ChildExit(s, status) ==
    /\ proc[s].state = "running"
    /\ status = None => ChildPid(s) \in signalled
    /\ proc' = [proc EXCEPT ![s] = [state |-> "zombie", status |-> status]]
    /\ UNCHANGED <<registryVars, telemetryVars, taskVars, pidOwner, signalled, pipe, written, historyVars>>

\* the process id of a reaped child is given to an unrelated process
OsReusePid(p) ==
    /\ pidOwner[p] = FreePid
    /\ \E s \in DOMAIN sessions : sessions[s].process_id = p /\ proc[s].state = "reaped"
    /\ pidOwner' = [pidOwner EXCEPT ![p] = OtherPid]
    /\ UNCHANGED <<registryVars, telemetryVars, taskVars, proc, signalled, pipe, written, historyVars>>

\* the pid of the child of session s is free again
ReleasePid(s) == [p \in Pids |-> IF pidOwner[p] = ChildPid(s) THEN FreePid ELSE pidOwner[p]]

(***************************************************************************)
(* pipe_reader_to_writer: one task per stream of a session.                *)
(***************************************************************************)
\* lines 77-90: the assignments to stats_w from the k-th on, up to the first
\* parse().unwrap() that panics; the guard of the mutex is held throughout
RECURSIVE AssignStats(_, _, _)
AssignStats(stats, values, k) ==
    IF k > Len(StatsOrder) THEN [stats |-> stats, panicked |-> FALSE]
    ELSE IF ~values[k].ok THEN [stats |-> stats, panicked |-> TRUE]
    ELSE AssignStats([stats EXCEPT ![StatsOrder[k]] = values[k].v], values, k + 1)

\* a push that replaces what the vector holds (the mutant of push)
pushReplacing(vec, x) == <<x>>

\* a push at the front of the vector (a mutant of push)
pushFront(vec, x) == <<x>> \o vec

\* Vec::push
push(vec, x) == Append(vec, x)

\* lines 67-108: next_line returns a line, which is classified
ReadLine(s, st) ==
    /\ reader[s][st] = "reading"
    /\ pipe[s][st] # <<>>
    /\ pipe' = [pipe EXCEPT ![s][st] = Tail(@)]
    /\ applied' = [applied EXCEPT ![s] = Append(@, [stream |-> st, line |-> Head(pipe[s][st])])]
    /\ LET cl == Classified[Head(pipe[s][st])] IN
       CASE cl.kind = "blank" ->
              UNCHANGED <<statistics, poisoned, loot, output, reader, late>>
         [] cl.kind = "stats" ->
              IF poisoned[s]
              THEN \* stats.lock().unwrap() panics on the poisoned mutex
                   /\ reader' = [reader EXCEPT ![s][st] = "panicked"]
                   /\ UNCHANGED <<statistics, poisoned, loot, output, late>>
              ELSE LET a == AssignStats(statistics[s], cl.values, 1) IN
                   /\ statistics' = [statistics EXCEPT ![s] = a.stats]
                   /\ poisoned' = [poisoned EXCEPT ![s] = a.panicked]
                   /\ reader' = [reader EXCEPT ![s][st] = IF a.panicked THEN "panicked" ELSE @]
                   /\ UNCHANGED <<loot, output, late>>
         [] cl.kind = "loot" ->
              /\ loot' = [loot EXCEPT ![s] = push(@, cl.loot)]
              /\ late' = [late EXCEPT ![s] = @ \/ completed[s] # None]
              /\ UNCHANGED <<statistics, poisoned, output, reader>>
         [] cl.kind = "raw" ->
              /\ output' = [output EXCEPT ![s] = push(@, cl.text)]
              /\ late' = [late EXCEPT ![s] = @ \/ completed[s] # None]
              /\ UNCHANGED <<statistics, poisoned, loot, reader>>
    /\ UNCHANGED <<registryVars, completed, waiter, proc, pidOwner, signalled, written>>

\* line 110: next_line returns None at the end of the stream
ReadEof(s, st) ==
    /\ reader[s][st] = "reading"
    /\ pipe[s][st] = <<>>
    /\ proc[s].state \in {"zombie", "reaped"}
    /\ reader' = [reader EXCEPT ![s][st] = "done"]
    /\ UNCHANGED <<registryVars, telemetryVars, waiter, osVars, historyVars>>

\* line 67: next_line returns an error (a failed read, a line that is not
\* UTF-8) and the while let loop ends
ReadError(s, st) ==
    /\ reader[s][st] = "reading"
    /\ reader' = [reader EXCEPT ![s][st] = "done"]
    /\ UNCHANGED <<registryVars, telemetryVars, waiter, osVars, historyVars>>

(***************************************************************************)
(* The completion waiter of Wrapper::start, which owns the Child.          *)
(***************************************************************************)
\* a waiter that records an exit it is told of whether or not it has recorded
\* a completion before (the mutant of WaitReturns)
WaitReturnsAgain(s) ==
    /\ proc[s].state = "zombie"
    /\ completed' = [completed EXCEPT ![s] =
            Some(with_status(IF proc[s].status = None THEN -1 ELSE proc[s].status[1]))]
    /\ waiter' = [waiter EXCEPT ![s] = "done"]
    /\ proc' = [proc EXCEPT ![s].state = "reaped"]
    /\ pidOwner' = ReleasePid(s)
    /\ UNCHANGED <<registryVars, statistics, poisoned, loot, output, reader, signalled,
                   pipe, written, historyVars>>

\* a waiter that records the exit only once both readers have ended (a
\* mutant of WaitReturns)
WaitReturnsAfterReaders(s) ==
    /\ waiter[s] = "waiting"
    /\ proc[s].state = "zombie"
    /\ \A st \in Streams : reader[s][st] # "reading"
    /\ completed' = [completed EXCEPT ![s] =
            Some(with_status(IF proc[s].status = None THEN -1 ELSE proc[s].status[1]))]
    /\ waiter' = [waiter EXCEPT ![s] = "done"]
    /\ proc' = [proc EXCEPT ![s].state = "reaped"]
    /\ pidOwner' = ReleasePid(s)
    /\ UNCHANGED <<registryVars, statistics, poisoned, loot, output, reader, signalled,
                   pipe, written, historyVars>>

\* lines 199-206: child.wait() returns the exit status; the child is reaped
WaitReturns(s) ==
    /\ waiter[s] = "waiting"
    /\ proc[s].state = "zombie"
    /\ completed' = [completed EXCEPT ![s] =
            Some(with_status(IF proc[s].status = None THEN -1 ELSE proc[s].status[1]))]
    /\ waiter' = [waiter EXCEPT ![s] = "done"]
    /\ proc' = [proc EXCEPT ![s].state = "reaped"]
    /\ pidOwner' = ReleasePid(s)
    /\ UNCHANGED <<registryVars, statistics, poisoned, loot, output, reader, signalled,
                   pipe, written, historyVars>>

\* lines 207-213: child.wait() returns an error; the task ends and drops the
\* Child, which kill_on_drop(true) kills if it still runs
WaitFails(s) ==
    /\ waiter[s] = "waiting"
    /\ proc[s].state \in {"running", "zombie"}
    /\ completed' = [completed EXCEPT ![s] = Some(with_error("wait"))]
    /\ waiter' = [waiter EXCEPT ![s] = "done"]
    /\ proc' = [proc EXCEPT ![s] =
            IF @.state = "running" THEN [state |-> "zombie", status |-> None] ELSE @]
    /\ UNCHANGED <<registryVars, statistics, poisoned, loot, output, reader, pidOwner,
                   signalled, pipe, written, historyVars>>

\* the runtime reaps a Child that was dropped before it was waited for
ReapOrphan(s) ==
    /\ waiter[s] = "done"
    /\ proc[s].state = "zombie"
    /\ proc' = [proc EXCEPT ![s].state = "reaped"]
    /\ pidOwner' = ReleasePid(s)
    /\ UNCHANGED <<registryVars, telemetryVars, taskVars, signalled, pipe, written, historyVars>>

(***************************************************************************)
(* The registry with the life cycle of its sessions' processes: every      *)
(* operation of State, the children's exits and the completion waiters.    *)
(* What the readers make of the children's output is in SessionSpec.       *)
(***************************************************************************)
Next ==
    \/ \E c \in Callers, client \in Clients, argv \in Argvs : CreateBegin(c, client, argv)
    \/ \E c \in Callers : CreateValidate(c)
    \/ \E c \in Callers : CreateSpawnFails(c)
    \/ \E c \in Callers : CreateSpawn(c)
    \/ \E c \in Callers : CreateInsert(c)
    \/ \E c \in Callers, id \in Ids : StopSession(c, id)
    \/ DropState
    \/ \E s \in Ids, status \in ExitStatuses : ChildExit(s, status)
    \/ \E p \in Pids : OsReusePid(p)
    \/ \E s \in Ids : WaitReturns(s)
    \/ \E s \in Ids : WaitFails(s)
    \/ \E s \in Ids : ReapOrphan(s)

Spec == Init /\ [][Next]_vars

(***************************************************************************)
(* One session from the return of its create on: its child, its two        *)
(* readers, its waiter, and the callers that stop it.                      *)
(***************************************************************************)
\* the session id and the process id of the session
TheSession == CHOOSE s \in Ids : \A t \in Ids : s <= t

SessionInit ==
    /\ sessions = insert(<<>>, TheSession,
                         [session_id |-> TheSession, process_id |-> TheSession,
                          client |-> "client", argv |-> "valid"])
    /\ dropped = FALSE
    /\ destroyed = {}
    /\ lock = NoCaller
    /\ pc = [c \in Callers |-> "idle"]
    /\ call = [c \in Callers |-> NoCall]
    /\ result = Ok("create", TheSession)
    /\ issued = {TheSession}
    /\ proc = [s \in Ids |-> IF s = TheSession THEN [state |-> "running", status |-> None] ELSE NoProcess]
    /\ pidOwner = [p \in Pids |-> IF p = TheSession THEN ChildPid(TheSession) ELSE FreePid]
    /\ signalled = {}
    /\ pipe = [s \in Ids |-> [st \in Streams |-> <<>>]]
    /\ reader = [s \in Ids |-> [st \in Streams |-> IF s = TheSession THEN "reading" ELSE "none"]]
    /\ waiter = [s \in Ids |-> IF s = TheSession THEN "waiting" ELSE "none"]
    /\ statistics = [s \in Ids |-> DefaultStatistics]
    /\ poisoned = [s \in Ids |-> FALSE]
    /\ loot = [s \in Ids |-> <<>>]
    /\ output = [s \in Ids |-> <<>>]
    /\ completed = [s \in Ids |-> None]
    /\ written = 0
    /\ late = [s \in Ids |-> FALSE]
    /\ applied = [s \in Ids |-> <<>>]

SessionNext ==
    \/ \E c \in Callers, id \in Ids : StopSession(c, id)
    \/ \E s \in Ids, st \in Streams, n \in CoreLines : ChildWrite(s, st, n)
    \/ \E s \in Ids, status \in ExitStatuses : ChildExit(s, status)
    \/ \E p \in Pids : OsReusePid(p)
    \/ \E s \in Ids, st \in Streams : ReadLine(s, st)
    \/ \E s \in Ids, st \in Streams : ReadEof(s, st)
    \/ \E s \in Ids, st \in Streams : ReadError(s, st)
    \/ \E s \in Ids : WaitReturns(s)
    \/ \E s \in Ids : WaitFails(s)
    \/ \E s \in Ids : ReapOrphan(s)

SessionSpec == SessionInit /\ [][SessionNext]_vars

\* the runtime polls the waiter task again once the exit of the child wakes
\* it: a child.wait() that can return does return; the readers and the
\* callers are under no such condition
FairSessionSpec == SessionSpec /\ \A s \in Ids : WF_vars(WaitReturns(s))

(***************************************************************************)
(* The capture of the output of that session alone: the child writes any   *)
(* of the lines of the model and exits, the two readers classify what it   *)
(* wrote, the waiter records the exit.                                     *)
(***************************************************************************)
CaptureNext ==
    \/ \E s \in Ids, st \in Streams, n \in LineNames : ChildWrites(s, st, n, MaxLines)
    \/ \E s \in Ids, status \in ExitStatuses : ChildExit(s, status)
    \/ \E s \in Ids, st \in Streams : ReadLine(s, st)
    \/ \E s \in Ids, st \in Streams : ReadEof(s, st)
    \/ \E s \in Ids, st \in Streams : ReadError(s, st)
    \/ \E s \in Ids : WaitReturns(s)

CaptureSpec == SessionInit /\ [][CaptureNext]_vars

(***************************************************************************)
(* Properties.                                                             *)
(***************************************************************************)
IsPrefix(a, b) == Len(a) <= Len(b) /\ SubSeq(b, 1, Len(a)) = a

\* the reader of stream st of session s takes the next line in this step
ReaderTakes(s, st) ==
    /\ reader[s][st] = "reading"
    /\ pipe[s][st] # <<>>
    /\ pipe'[s][st] = Tail(pipe[s][st])

\* the line named n matches the statistics pattern and has a field that does not parse
Malformed(n) ==
    /\ Classified[n].kind = "stats"
    /\ \E k \in 1..Len(StatsOrder) : ~Classified[n].values[k].ok

\* the sessions that have a child process, running or not
Spawned == {s \in Ids : proc[s].state # "none"}

\* a create has generated id and has not returned yet
InProgress(id) == \E c \in Callers : pc[c] \in {"start", "insert"} /\ call[c].session_id = id

\* C1: once the Completion of a session is present, no step of any task or
\* caller changes or clears it.
C1_CompletionSetOnce ==
    [][\A s \in Ids : completed[s] # None => completed'[s] = completed[s]]_vars

\* C1 witness: the completion is present, both readers have ended after it
\* was set or before, and a stop has been answered since the child was reaped
C1_Witness ==
    /\ completed[TheSession] # None
    /\ \A st \in Streams : reader[TheSession][st] = "done"
    /\ result = Err("stop", "signal")

\* C2 as claimed: once the completion is present, no step appends a Finding
\* or a raw-output line.
C2_FrozenAfterCompletion ==
    [][\A s \in Ids : completed[s] # None => loot'[s] = loot[s] /\ output'[s] = output[s]]_vars

\* C2 as amended: the findings and the raw output only grow, no step changes
\* or removes an entry, before and after the completion is present.
C2_AppendOnly ==
    [][\A s \in Ids : IsPrefix(loot[s], loot'[s]) /\ IsPrefix(output[s], output'[s])]_vars

\* C2 witness: a reader has appended a record after the completion was set
C2_Witness ==
    /\ late[TheSession]
    /\ completed[TheSession] # None
    /\ Len(loot[TheSession]) + Len(output[TheSession]) > 0

\* C3: a line that matches the statistics pattern and has a field that does
\* not parse is appended to the raw output, and the reader goes on reading.
C3_MalformedFallsToRaw ==
    [][\A s \in Ids, st \in Streams :
          ReaderTakes(s, st) /\ Malformed(Head(pipe[s][st]))
          => /\ output'[s] = Append(output[s], trim(strip_str(LineText[Head(pipe[s][st])])))
             /\ reader'[s][st] = "reading"]_vars

\* C4: every line that matches the statistics pattern overwrites all eight
\* fields with the values of the line; the line with speed=12.5 gives tasks 5,
\* memory 120MB, targets 10, attempts 50, done 25, done_percent 50.0, errors 2
\* and a reqs_per_sec read from 12.5.
C4_StatsLineOverwritesAll ==
    [][\A s \in Ids, st \in Streams :
          ReaderTakes(s, st) /\ Classified[Head(pipe[s][st])].kind = "stats"
          => LET values == Classified[Head(pipe[s][st])].values IN
             /\ \A k \in 1..Len(StatsOrder) :
                   values[k].ok /\ statistics'[s][StatsOrder[k]] = values[k].v
             /\ Head(pipe[s][st]) = "stats_decimal"
                => /\ statistics'[s].tasks = 5
                   /\ statistics'[s].memory = <<"1", "2", "0", "M", "B">>
                   /\ statistics'[s].targets = 10
                   /\ statistics'[s].attempts = 50
                   /\ statistics'[s].done = 25
                   /\ statistics'[s].done_percent = F32(FALSE, 50, <<>>, 0)
                   /\ statistics'[s].errors = 2
                   /\ statistics'[s].reqs_per_sec \in {12, 13}]_vars

\* C5: while a create spawns the child process the lock of the registry is
\* not held by it, and get and list of other callers can complete.
C5_SpawnOutsideLock ==
    \A c \in Callers : pc[c] = "start" => lock # c /\ CanRead

\* C6: no Wrapper has been destroyed while its child process still runs
\* unkilled.
C6_DestroyedHandleKillsChild ==
    \A s \in destroyed : proc[s].state # "running"

\* C7: a create with an argv that fails validation returns an error, spawns
\* no process, starts no task, and leaves the session map as it was, from
\* the call to the return.
C7_InvalidArgvChangesNothing ==
    [][\A c \in Callers :
          /\ (pc[c] = "idle" /\ pc'[c] = "validate" /\ ~try_parse_from(call'[c].argv))
             => sessions' = sessions /\ Spawned' = Spawned /\ taskVars' = taskVars
          /\ (pc[c] = "validate" /\ ~try_parse_from(call[c].argv))
             => /\ sessions' = sessions
                /\ pc'[c] # "validate"
                   => /\ pc'[c] = "idle"
                      /\ result' = Err("create", "validation")
                      /\ Spawned' = Spawned
                      /\ taskVars' = taskVars]_vars

\* C7 witness: a create has failed validation in a registry that holds a session
C7_Witness ==
    /\ result = Err("create", "validation")
    /\ DOMAIN sessions # {}
    /\ \A c \in Callers : pc[c] = "idle"

\* C8: when the spawn fails, create returns an error and the session map is
\* unchanged; the generated id is not registered then nor later, and every
\* registered session has a child that was spawned.
C8_SpawnFailureRegistersNothing ==
    /\ [](\A id \in DOMAIN sessions : id \in Spawned)
    /\ [][/\ \A c \in Callers :
                pc[c] = "start"
                => /\ sessions' = sessions
                   /\ pc'[c] = "idle"
                      => result' = Err("create", "spawn") /\ Spawned' = Spawned
          /\ \A id \in issued :
                id \notin DOMAIN sessions /\ ~InProgress(id) => id \notin DOMAIN sessions']_vars

\* C8 witness: a create has failed at the spawn, its id is issued and is no
\* key of the map, and a later create has registered a session
C8_Witness ==
    /\ \E id \in issued : id \notin DOMAIN sessions /\ ~InProgress(id)
    /\ DOMAIN sessions # {}
    /\ result = Err("create", "spawn")

\* C9: a successful create returns an id that was no key of the map, adds
\* exactly that entry and leaves every other entry as it was; no step removes
\* or replaces an entry, so no later create returns or overwrites the id.
C9_FreshIdOneEntry ==
    [][/\ \A c \in Callers :
             pc[c] = "insert" /\ pc'[c] = "idle"
             => LET s == call[c].session_id IN
                /\ s \notin DOMAIN sessions
                /\ DOMAIN sessions' = DOMAIN sessions \cup {s}
                /\ result' = Ok("create", s)
       /\ \A k \in DOMAIN sessions : k \in DOMAIN sessions' /\ sessions'[k] = sessions[k]]_vars

\* C9 witness: two creates have succeeded, and the map holds both sessions
C9_Witness ==
    /\ Cardinality(DOMAIN sessions) = 2
    /\ result.op = "create" /\ result.ok

\* C10: a stop that fails changes nothing: not the session map, not the
\* telemetry of any session, and it sends no signal; a stop of an id that is
\* no key of the map fails with not found.
C10_FailedStopChangesNothing ==
    [][\A c \in Callers, id \in Ids :
          StopSession(c, id)
          => /\ id \notin DOMAIN sessions => result' = Err("stop", "not found")
             /\ ~result'.ok
                => UNCHANGED <<sessions, destroyed, telemetryVars, taskVars, osVars>>]_vars

\* C10 witness: a stop has failed because the signal was not delivered, in a
\* session whose readers have recorded statistics and raw output
C10_Witness ==
    /\ result = Err("stop", "signal")
    /\ statistics[TheSession] # DefaultStatistics
    /\ output[TheSession] # <<>>

\* C11: when a reader fails to read a line, the failure is recorded in the
\* state of the session that get and list return: its statistics, findings,
\* raw output or completion change.
C11_ReadErrorRecorded ==
    [][\A s \in Ids, st \in Streams :
          ReadError(s, st)
          => <<statistics'[s], loot'[s], output'[s], completed'[s]>>
             # <<statistics[s], loot[s], output[s], completed[s]>>]_vars

\* the lines of the model by what they are after escape stripping: blank, a
\* match of the statistics pattern, a match of the finding pattern
BlankLines == {n \in LineNames : is_empty(trim(strip_str(LineText[n])))}

StatsLines == {n \in LineNames : captures(STATS_PARSER, strip_str(LineText[n])).ok}

FindingLines == {n \in LineNames : captures(LOOT_PARSER, strip_str(LineText[n])).ok}

\* the statistics of session s are, after the step, the fields of line n
StatsOverwritten(s, n) ==
    \A k \in 1..Len(StatsOrder) :
       /\ Classified[n].values[k].ok
       /\ statistics'[s][StatsOrder[k]] = Classified[n].values[k].v

\* the step appends exactly one entry to the sequence
OneAppended(before, after) == Len(after) = Len(before) + 1 /\ IsPrefix(before, after)

\* C12: a blank line changes nothing; any other line has exactly one outcome,
\* the first that applies of: the statistics are overwritten (the line matches
\* the statistics pattern), one Finding is appended (it matches the finding
\* pattern), one raw-output entry is appended.
C12_OneOutcomePerLine ==
    [][\A s \in Ids, st \in Streams :
          ReaderTakes(s, st)
          => LET n == Head(pipe[s][st]) IN
             IF n \in BlankLines
             THEN UNCHANGED <<statistics, loot, output>>
             ELSE IF n \in StatsLines
             THEN StatsOverwritten(s, n) /\ UNCHANGED <<loot, output>>
             ELSE IF n \in FindingLines
             THEN OneAppended(loot[s], loot'[s]) /\ UNCHANGED <<statistics, output>>
             ELSE OneAppended(output[s], output'[s]) /\ UNCHANGED <<statistics, loot>>]_vars

\* the statistics of session s are the fields of line n
StatsAre(s, n) ==
    \A k \in 1..Len(StatsOrder) :
       /\ Classified[n].values[k].ok
       /\ statistics[s][StatsOrder[k]] = Classified[n].values[k].v

\* the i-th and the j-th line taken in session s are two consecutive
\* statistics lines of one stream, and no other statistics line was taken
\* after the i-th
LastTwoStatsLines(s, i, j) ==
    /\ i < j
    /\ applied[s][i].line \in StatsLines
    /\ applied[s][j].line \in StatsLines
    /\ applied[s][i].stream = applied[s][j].stream
    /\ \A k \in DOMAIN applied[s] : k > i /\ k # j => applied[s][k].line \notin StatsLines

\* C13: after two consecutive statistics lines of one stream, with no
\* statistics line of the other stream between or after them, every field
\* of the statistics is the value of the second line, and errors is 0 when
\* the second line has no errors= group.
C13_SecondLineRetained ==
    \A s \in Ids : \A i, j \in DOMAIN applied[s] :
       LastTwoStatsLines(s, i, j)
       => /\ StatsAre(s, applied[s][j].line)
          /\ applied[s][j].line = "stats_plain" => statistics[s].errors = 0

\* the lines that match neither pattern and are not blank, and what is left
\* of each line of the model after escape stripping and trimming
RawLines == LineNames \ (BlankLines \cup StatsLines \cup FindingLines)

RawText == [n \in LineNames |-> trim(strip_str(LineText[n]))]

\* the Findings of the two finding lines of the model, read off the lines
ExpectedLoot ==
    [n \in {"finding", "finding_notarget"} |->
        IF n = "finding"
        THEN [found_at |-> <<"2", "0", "2", "4", "-", "0", "1", "-", "0", "1", "T", "0", "0", ":", "0", "0", ":", "0", "0">>, plugin |-> <<"s", "q", "l", "-", "i", "n", "j", "e", "c", "t", "i", "o", "n">>,
              target |-> <<<<"h", "t", "t", "p", ":", "/", "/", "t", "a", "r", "g", "e", "t">>>>, data |-> <<"f", "o", "u", "n", "d", " ", "a", "d", "m", "i", "n", ":", "a", "d", "m", "i", "n", "1", "2", "3">>]
        ELSE [found_at |-> <<"2", "0", "2", "4", "-", "0", "1", "-", "0", "2", "T", "0", "0", ":", "0", "0", ":", "0", "0">>, plugin |-> <<"s", "s", "h">>,
              target |-> <<>>, data |-> <<"r", "o", "o", "t", ":", "t", "o", "o", "r">>]]

\* c is an interleaving of a and b that keeps the order of each
RECURSIVE IsShuffle(_, _, _)
IsShuffle(a, b, c) ==
    IF c = <<>> THEN a = <<>> /\ b = <<>>
    ELSE \/ a # <<>> /\ Head(a) = Head(c) /\ IsShuffle(Tail(a), b, Tail(c))
         \/ b # <<>> /\ Head(b) = Head(c) /\ IsShuffle(a, Tail(b), Tail(c))

\* the lines of stream st among lines that the readers of session s have
\* taken, in the order in which they came
TakenOf(s, st, lines) ==
    LET Test(e) == e.stream = st /\ e.line \in lines
    IN  SelectSeq(applied[s], Test)

RawEntriesOf(s, st) ==
    LET t == TakenOf(s, st, RawLines) IN [i \in 1..Len(t) |-> RawText[t[i].line]]

FindingsOf(s, st) ==
    LET t == TakenOf(s, st, FindingLines \ StatsLines) IN [i \in 1..Len(t) |-> ExpectedLoot[t[i].line]]

\* C14: the raw output of a session is an interleaving of the raw entries of
\* its stdout lines and of its stderr lines, each in the order of its stream
\* and each entry the line escape-stripped and trimmed; the findings are an
\* interleaving of the Findings of the two streams in the same way.
C14_PerStreamOrder ==
    \A s \in Ids :
       /\ IsShuffle(RawEntriesOf(s, "stdout"), RawEntriesOf(s, "stderr"), output[s])
       /\ IsShuffle(FindingsOf(s, "stdout"), FindingsOf(s, "stderr"), loot[s])

\* C14 witness: two different raw lines of stdout have been appended, and a
\* raw line of stderr between them
C14_Witness ==
    /\ Len(applied[TheSession]) = 3
    /\ Len(output[TheSession]) = 3
    /\ applied[TheSession][1].stream = "stdout"
    /\ applied[TheSession][2].stream = "stderr"
    /\ applied[TheSession][3].stream = "stdout"
    /\ applied[TheSession][1].line # applied[TheSession][3].line
    /\ output[TheSession][1] # output[TheSession][3]

\* C15: the waiter records exit_code c and no error after an exit with code
\* c, exit_code -1 and no error after a death by signal, exit_code -1 and an
\* error after a failure of the wait; no other step records a Completion, and
\* a Completion with an error has exit_code -1.
C15_CompletionReflectsExit ==
    /\ [](\A s \in Ids :
             completed[s] # <<>> /\ completed[s][1].error # <<>> => completed[s][1].exit_code = -1)
    /\ [][\A s \in Ids :
             /\ WaitReturns(s)
                => completed'[s] =
                      <<[exit_code |-> IF proc[s].status = <<>> THEN -1 ELSE proc[s].status[1],
                         error |-> <<>>]>>
             /\ WaitFails(s) => completed'[s] = <<[exit_code |-> -1, error |-> <<"wait">>]>>
             /\ completed[s] = <<>> /\ completed'[s] # <<>> => WaitReturns(s) \/ WaitFails(s)]_vars

\* C15 witness: one session has completed with exit code 0 and no error,
\* the other with exit code -1 and the error of its wait
C15_Witness ==
    \E s, t \in Ids :
       /\ completed[s] = <<[exit_code |-> 0, error |-> <<>>]>>
       /\ completed[t] = <<[exit_code |-> -1, error |-> <<"wait">>]>>

\* C16: with a waiter that is scheduled fairly, a child process that has
\* exited leads to a present Completion of its session, whatever the two
\* readers do or fail to do.
C16_ExitLeadsToCompletion ==
    \A s \in Ids : (proc[s].state \in {"zombie", "reaped"}) ~> (completed[s] # None)

\* C16 witness: the Completion is present while the stdout reader has not
\* taken a line that waits in its pipe and the stderr reader has panicked
C16_Witness ==
    /\ completed[TheSession] # None
    /\ reader[TheSession]["stdout"] = "reading"
    /\ pipe[TheSession]["stdout"] # <<>>
    /\ reader[TheSession]["stderr"] = "panicked"

\* C17: a line that starts with the statistics tokens at its first character
\* ("tasks=5 mem=120MB ... speed=12 reqs/s") is taken as a statistics line:
\* it sets the statistics and adds no Finding and no raw-output entry.
C17_StatsAtLineStart ==
    [][\A s \in Ids, st \in Streams :
          ReaderTakes(s, st) /\ Head(pipe[s][st]) = "stats_bare"
          => /\ statistics'[s] =
                   [tasks |-> 5, memory |-> <<"1", "2", "0", "M", "B">>, targets |-> 10,
                    attempts |-> 50, errors |-> 2, done |-> 25,
                    done_percent |-> F32(FALSE, 50, <<>>, 0), reqs_per_sec |-> 12]
             /\ UNCHANGED <<loot, output>>]_vars

\* C18: the statistics stored for a session are at every moment the default
\* record or all the fields of one statistics line, never fields of two
\* lines or a record written in part.
C18_StatsRecordAtomic ==
    \A s \in Ids : statistics[s] = DefaultStatistics \/ \E n \in StatsLines : StatsAre(s, n)

\* C19: when the reader of one stream has stopped abnormally, the reader of
\* the other stream still classifies the lines it takes, statistics lines
\* included, and goes on reading; and the statistics of the session stay
\* readable.
C19_ReadersIsolated ==
    /\ [](\A s \in Ids : StatisticsReadable(s))
    /\ [][\A s \in Ids, st \in Streams :
             /\ ReaderTakes(s, st)
             /\ \E other \in Streams \ {st} : reader[s][other] = "panicked"
             => /\ reader'[s][st] = "reading"
                /\ Head(pipe[s][st]) \in StatsLines /\ ~Malformed(Head(pipe[s][st]))
                   => StatsOverwritten(s, Head(pipe[s][st]))]_vars

\* C20: a stop of a session whose child has exited and has been reaped, its
\* Completion present, fails with the signal error and delivers the signal
\* to no process; no stop ever signals a process that is not the child of a
\* session.
C20_StopSignalsOnlyOwnChild ==
    /\ [](OtherPid \notin signalled)
    /\ [][\A c \in Callers, id \in DOMAIN sessions :
             StopSession(c, id) /\ completed[id] # None /\ proc[id].state = "reaped"
             => result' = Err("stop", "signal") /\ signalled' = signalled]_vars

=============================================================================
